---- MODULE Spec2Model ----
(***************************************************************************)
(* MatMultiYearView (src/lib/datepicker/multi-year-view.ts): the year      *)
(* selector of the datepicker.  The component owns an active date, the     *)
(* bounds minDate/maxDate, a date filter, the page of 24 year cells and    *)
(* the year of the selection model's first selected date.  One action per  *)
(* setter, lifecycle hook and event handler of the class.                  *)
(*                                                                         *)
(* The DateAdapter and the MatDateSelectionModel are collaborators whose   *)
(* code is not part of the source file; their operations are modelled on   *)
(* the Gregorian calendar as the spec's Calendar Adapter describes them.   *)
(***************************************************************************)
EXTENDS Integers, Sequences, FiniteSets, TLC

(* ------------------------------------------------------------------ *)
(* Program constants                                                    *)
(* ------------------------------------------------------------------ *)
yearsPerPage == 24

yearsPerRow == 4

(* ------------------------------------------------------------------ *)
(* Bounds of the model                                                  *)
(* ------------------------------------------------------------------ *)
\* Keyboard navigation is explored while the active year stays within
\* YearSpan years of one of the anchor years.
YearSpan == 24

(* ------------------------------------------------------------------ *)
(* Values: dates, null, and values that are not valid dates             *)
(* ------------------------------------------------------------------ *)
Date(y, m, d) == [kind |-> "date", year |-> y, month |-> m, date |-> d]

Null == [kind |-> "null", year |-> 0, month |-> 0, date |-> 0]

\* A Date instance holding NaN ("Invalid Date").
InvalidDate == [kind |-> "invalid", year |-> 0, month |-> 0, date |-> 0]

\* A value that is no date instance and that deserialization does not parse.
NotADate == [kind |-> "other", year |-> 0, month |-> 0, date |-> 0]

IsNull(v) == v.kind = "null"

\* Nullable year numbers (_selectedYear, _todayYear).
YearVal(y) == [kind |-> "year", year |-> y]

NullYear == [kind |-> "null", year |-> 0]

UndefinedYear == [kind |-> "undefined", year |-> 0]

(* ------------------------------------------------------------------ *)
(* JavaScript arithmetic                                                *)
(* ------------------------------------------------------------------ *)
\* a % b of JavaScript: the result takes the sign of the dividend.
JsRem(a, b) == IF a >= 0 THEN a % b ELSE -((-a) % b)

\* Math.floor(a / b) for b > 0.
FloorDiv(a, b) == a \div b

Min(a, b) == IF a <= b THEN a ELSE b

(* ------------------------------------------------------------------ *)
(* DateAdapter (Gregorian calendar, months 0..11)                       *)
(* ------------------------------------------------------------------ *)
IsLeapYear(y) == (y % 4 = 0) /\ ((y % 100 # 0) \/ (y % 400 = 0))

DaysInMonth(y, m) ==
  IF m = 1 THEN (IF IsLeapYear(y) THEN 29 ELSE 28)
  ELSE IF m \in {3, 5, 8, 10} THEN 30
  ELSE 31

getYear(date) == date.year

getMonth(date) == date.month

getDate(date) == date.date

createDate(year, month, date) == Date(year, month, date)

getNumDaysInMonth(date) == DaysInMonth(date.year, date.month)

\* Adding years with the day left to overflow into the next month.
addCalendarYears_overflow(date, years) ==
  IF date.date <= DaysInMonth(date.year + years, date.month)
    THEN Date(date.year + years, date.month, date.date)
  ELSE Date(date.year + years, date.month + 1,
            date.date - DaysInMonth(date.year + years, date.month))

\* Adds whole years; a day that does not exist in the target month
\* (Feb 29 in a common year) becomes the last day of that month.
addCalendarYears(date, years) ==
  Date(date.year + years, date.month,
       Min(date.date, DaysInMonth(date.year + years, date.month)))

\* Adds one day (the only use the view makes of addCalendarDays).
addCalendarDays1(date) ==
  IF date.date < DaysInMonth(date.year, date.month)
    THEN Date(date.year, date.month, date.date + 1)
  ELSE IF date.month < 11
    THEN Date(date.year, date.month + 1, 1)
  ELSE Date(date.year + 1, 0, 1)

\* Negative, zero or positive as first is before, equal to or after second.
compareDate(first, second) ==
  IF first.year # second.year THEN first.year - second.year
  ELSE IF first.month # second.month THEN first.month - second.month
  ELSE first.date - second.date

clampDate(date, min, max) ==
  IF ~IsNull(min) /\ compareDate(date, min) < 0 THEN min
  ELSE IF ~IsNull(max) /\ compareDate(date, max) > 0 THEN max
  ELSE date

isDateInstance(obj) == obj.kind \in {"date", "invalid"}

isValid(obj) == obj.kind = "date"

\* null and valid dates pass through; anything else becomes an invalid date.
deserialize(value) ==
  IF IsNull(value) \/ (isDateInstance(value) /\ isValid(value)) THEN value
  ELSE InvalidDate

(* ------------------------------------------------------------------ *)
(* Inputs the environment supplies                                      *)
(* ------------------------------------------------------------------ *)
\* What DateAdapter.today() returns.
Todays == {Date(2023, 5, 15)}

\* Values assigned to the activeDate input.
ActiveInputs ==
  {Date(2025, 5, 15), Date(-5, 5, 15), InvalidDate, NotADate, Null}

\* The same, with a Feb 29, where commits are explored.
CommitActiveInputs == ActiveInputs \cup {Date(2024, 1, 29)}

\* Values assigned to the minDate and maxDate inputs.
MinInputs == {Null, Date(2020, 5, 15), InvalidDate}

MaxInputs == {Null, Date(2025, 8, 20), Date(2019, 2, 20), NotADate}

\* Dates handed to the selection model.
SelectedInputs == {Null, Date(2021, 3, 30), Date(2030, 0, 1)}

\* The date filters: none, one that accepts a single date (the 366th day of
\* a leap year), and one that accepts every Feb 29.
NoFilter == "undefined"

OneDate == Date(2024, 11, 31)

DateFilters == {NoFilter, "oneDate", "feb29"}

\* this.dateFilter(date)
applyFilter(filter, date) ==
  IF filter = "oneDate" THEN date = OneDate
  ELSE IF filter = "feb29" THEN date.month = 1 /\ date.date = 29
  ELSE FALSE

\* The text direction the handler reads from the optional Directionality
\* ("none": no Directionality is injected).
Directions == {"none", "ltr", "rtl"}

\* Key codes: the ten the handler names and one it does not.
NavKeys ==
  {"LEFT_ARROW", "RIGHT_ARROW", "UP_ARROW", "DOWN_ARROW",
   "HOME", "END", "PAGE_UP", "PAGE_DOWN"}

CommitKeys == {"ENTER", "SPACE"}

KeyCodes == NavKeys \cup CommitKeys \cup {"TAB"}

\* The keyboard events, each with the text direction the handler finds:
\* every key code in a left-to-right layout, the alt modifier with the keys
\* that read it and with one that does not, and the horizontal arrows in
\* every layout.
KeyEvents ==
  {[keyCode |-> k, altKey |-> FALSE, dir |-> "ltr"] : k \in KeyCodes}
    \cup {[keyCode |-> k, altKey |-> TRUE, dir |-> "ltr"] :
             k \in {"PAGE_UP", "PAGE_DOWN", "HOME"}}
    \cup {[keyCode |-> k, altKey |-> FALSE, dir |-> d] :
             k \in {"LEFT_ARROW", "RIGHT_ARROW"}, d \in Directions}
    \cup {[keyCode |-> k, altKey |-> FALSE, dir |-> "rtl"] :
             k \in {"UP_ARROW", "DOWN_ARROW"}}

\* The years keyboard navigation is explored in: those within YearSpan of an
\* anchor year, and the years an alt page jump reaches from an anchor year.
AnchorYears == {0, 2023}

ExploredYears ==
  UNION {((a - YearSpan)..(a + YearSpan))
           \cup {a - yearsPerPage * 10, a + yearsPerPage * 10} : a \in AnchorYears}

YearOK(y) == y \in ExploredYears

(* ------------------------------------------------------------------ *)
(* State                                                                *)
(* ------------------------------------------------------------------ *)
VARIABLES
  activeDate,        \* _activeDate
  minDate,           \* _minDate (Null when unset)
  maxDate,           \* _maxDate (Null when unset)
  dateFilter,        \* dateFilter (NoFilter when unset)
  years,             \* _years: rows of cells; << >> before the first _init
  todayYear,         \* _todayYear
  selectedYear,      \* _selectedYear
  selection,         \* the selection model's first selected date
  subscribed,        \* dateSubscription is open
  phase,             \* "constructed", "initialized", "destroyed"
  today,             \* what DateAdapter.today() returns
  lastOp,            \* the operation that ran last, with its key event
  oldActive,         \* the active date when that operation started
  emitted,           \* the events it emitted, in order
  initRuns,          \* how often it ran _init
  focusCalls,        \* how often it called _focusActiveCell
  defaultPrevented,  \* whether it called event.preventDefault
  keySteps           \* the steps a key handler took, in the order taken

vars ==
  <<activeDate, minDate, maxDate, dateFilter, years, todayYear, selectedYear,
    selection, subscribed, phase, today, lastOp, oldActive, emitted,
    initRuns, focusCalls, defaultPrevented, keySteps>>

\* lastOp: the operation, the key event of a keydown, and the year argument
\* of _yearSelected.
Op(name) ==
  [op |-> name, keyCode |-> "", altKey |-> FALSE, isRtl |-> FALSE, year |-> 0]

KeyOp(keyCode, altKey, isRtl) ==
  [op |-> "keydown", keyCode |-> keyCode, altKey |-> altKey, isRtl |-> isRtl,
   year |-> 0]

YearOp(year) ==
  [op |-> "_yearSelected", keyCode |-> "", altKey |-> FALSE, isRtl |-> FALSE,
   year |-> year]

Event(name, value) == [name |-> name, value |-> value]

(* ------------------------------------------------------------------ *)
(* Helpers of the view                                                  *)
(* ------------------------------------------------------------------ *)
_getValidDateOrNull(obj) ==
  IF isDateInstance(obj) /\ isValid(obj) THEN obj ELSE Null

_isRtl(d) == d # "none" /\ d = "rtl"

\* The year _selectedYear gets: date && getYear(date).
extractYear(date) == IF IsNull(date) THEN NullYear ELSE YearVal(getYear(date))

\* The day scan of _shouldEnableYear, from `date` to the end of its month:
\* the filter is tried on each date in turn and addCalendarDays(date, 1)
\* gives the next one.  `found` tells whether a date passed, `next` is the
\* date the loop goes on with and `tested` counts the dates tried so far.
RECURSIVE ScanMonth(_, _, _)
ScanMonth(date, filter, tested) ==
  IF applyFilter(filter, date)
    THEN [found |-> TRUE, next |-> date, tested |-> tested + 1]
  ELSE LET n == addCalendarDays1(date)
       IN IF getMonth(n) # getMonth(date)
            THEN [found |-> FALSE, next |-> n, tested |-> tested + 1]
          ELSE ScanMonth(n, filter, tested + 1)

\* The loop giving up at the end of January.
ScanYear_januaryOnly(date, year, filter, tested) ==
  LET r == ScanMonth(date, filter, tested)
  IN [found |-> r.found, tested |-> r.tested]

\* The whole loop: for (date = firstOfYear; getYear(date) == year; date + 1).
\* It runs month by month so that no evaluation nests a year deep.
RECURSIVE ScanYear(_, _, _, _)
ScanYear(date, year, filter, tested) ==
  IF getYear(date) # year THEN [found |-> FALSE, tested |-> tested]
  ELSE LET r == ScanMonth(date, filter, tested)
       IN IF r.found THEN [found |-> TRUE, tested |-> r.tested]
          ELSE ScanYear(r.next, year, filter, r.tested)

\* The offset of the active year in its page, as _init takes it.
activeOffset(activeYear) == JsRem(activeYear, yearsPerPage)

\* The years of the pages _init builds for the explored active years.
PagedYears ==
  UNION {(y - activeOffset(y))..(y - activeOffset(y) + yearsPerPage - 1) :
           y \in ExploredYears}

\* What the loop returns for a filter and a year; it depends on nothing
\* else, and is tabulated for every year of every page (@@ << >> makes the
\* table an explicit function, so that each entry is evaluated once).
scanResult ==
  [p \in (DateFilters \ {NoFilter}) \X PagedYears |->
     ScanYear(createDate(p[2], 0, 1), p[2], p[1], 0)] @@ << >>

\* The rule with the year of maxDate itself disabled.
_shouldEnableYear_maxExcluded(year, min, max, filter) ==
  IF \/ (~IsNull(max) /\ year >= getYear(max))
     \/ (~IsNull(min) /\ year < getYear(min))
    THEN FALSE
  ELSE IF filter = NoFilter THEN TRUE
  ELSE scanResult[<<filter, year>>].found

_shouldEnableYear(year, min, max, filter) ==
  IF \/ (~IsNull(max) /\ year > getYear(max))
     \/ (~IsNull(min) /\ year < getYear(min))
    THEN FALSE
  ELSE IF filter = NoFilter THEN TRUE
  ELSE scanResult[<<filter, year>>].found

\* A MatCalendarCell: its value and its enabled flag (the label and the
\* range of the cell are derived from the value alone).
_createCellForYear(year, min, max, filter) ==
  [value |-> year, enabled |-> _shouldEnableYear(year, min, max, filter)]

\* The loop of _init: i counts the years pushed, row is the open row.
RECURSIVE InitLoop(_, _, _, _, _, _, _)
InitLoop(i, row, grid, first, min, max, filter) ==
  IF i >= yearsPerPage THEN grid
  ELSE LET pushed == Append(row, first + i)
       IN IF Len(pushed) = yearsPerRow
            THEN InitLoop(i + 1, << >>,
                   Append(grid, [c \in 1..Len(pushed) |->
                                   _createCellForYear(pushed[c], min, max, filter)]),
                   first, min, max, filter)
          ELSE InitLoop(i + 1, pushed, grid, first, min, max, filter)

\* _init with the page starting at the active year.
initYears_fromActive(active, min, max, filter) ==
  InitLoop(0, << >>, << >>, getYear(active), min, max, filter)

\* The _years that _init builds for an active date.
initYears(active, min, max, filter) ==
  LET activeYear == getYear(active)
  IN InitLoop(0, << >>, << >>, activeYear - activeOffset(activeYear),
              min, max, filter)

\* The page an active year is on, as the activeDate setter compares pages.
pageOf(year) == FloorDiv(year, yearsPerPage)

\* The page comparison with the quotient truncated instead of floored.
pageChanged_truncated(old, new) ==
  (getYear(old) - JsRem(getYear(old), yearsPerPage))
    # (getYear(new) - JsRem(getYear(new), yearsPerPage))

pageChanged(old, new) == pageOf(getYear(old)) # pageOf(getYear(new))

\* The date the activeDate setter stores for an assigned value.
\* The validation falling back to the epoch instead of today.
validActiveDate_epochFallback(value, tdy) ==
  LET v == _getValidDateOrNull(deserialize(value))
  IN IF IsNull(v) THEN Date(1970, 0, 1) ELSE v

validActiveDate(value, tdy) ==
  LET v == _getValidDateOrNull(deserialize(value))
  IN IF IsNull(v) THEN tdy ELSE v

\* The setter with the clamp left out.
newActiveDate_unclamped(value, min, max, tdy) == validActiveDate(value, tdy)

newActiveDate(value, min, max, tdy) ==
  clampDate(validActiveDate(value, tdy), min, max)

\* _yearSelected announcing the year with the active month.
yearSelectedEvents_activeMonth(year, active) ==
  LET month == getMonth(active)
      daysInMonth == getNumDaysInMonth(createDate(year, month, 1))
  IN << Event("yearSelected", createDate(year, month, 1)),
        Event("selectedChange",
              createDate(year, month, Min(getDate(active), daysInMonth))) >>

\* _yearSelected keeping the day as it is.
yearSelectedEvents_dayKept(year, active) ==
  << Event("yearSelected", createDate(year, 0, 1)),
     Event("selectedChange",
           createDate(year, getMonth(active), getDate(active))) >>

\* The events _yearSelected(year) emits, in order.
yearSelectedEvents(year, active) ==
  LET month == getMonth(active)
      daysInMonth == getNumDaysInMonth(createDate(year, month, 1))
  IN << Event("yearSelected", createDate(year, 0, 1)),
        Event("selectedChange",
              createDate(year, month, Min(getDate(active), daysInMonth))) >>

\* The year delta of a navigation key.
homeDelta(year) == JsRem(-year, yearsPerPage)

endDelta(year) == yearsPerPage - JsRem(year, yearsPerPage) - 1

\* The key deltas with the horizontal arrows ignoring the text direction.
keyDelta_ltrOnly(keyCode, altKey, isRtl, year) ==
  CASE keyCode = "LEFT_ARROW" -> -1
    [] keyCode = "RIGHT_ARROW" -> 1
    [] keyCode = "UP_ARROW" -> -yearsPerRow
    [] keyCode = "DOWN_ARROW" -> yearsPerRow
    [] keyCode = "HOME" -> homeDelta(year)
    [] keyCode = "END" -> endDelta(year)
    [] keyCode = "PAGE_UP" ->
         (IF altKey THEN -yearsPerPage * 10 ELSE -yearsPerPage)
    [] keyCode = "PAGE_DOWN" ->
         (IF altKey THEN yearsPerPage * 10 ELSE yearsPerPage)

keyDelta(keyCode, altKey, isRtl, year) ==
  CASE keyCode = "LEFT_ARROW" -> (IF isRtl THEN 1 ELSE -1)
    [] keyCode = "RIGHT_ARROW" -> (IF isRtl THEN -1 ELSE 1)
    [] keyCode = "UP_ARROW" -> -yearsPerRow
    [] keyCode = "DOWN_ARROW" -> yearsPerRow
    [] keyCode = "HOME" -> homeDelta(year)
    [] keyCode = "END" -> endDelta(year)
    [] keyCode = "PAGE_UP" ->
         (IF altKey THEN -yearsPerPage * 10 ELSE -yearsPerPage)
    [] keyCode = "PAGE_DOWN" ->
         (IF altKey THEN yearsPerPage * 10 ELSE yearsPerPage)

\* The emit condition comparing the years alone.
activeDateMoved_yearOnly(old, new) == getYear(old) # getYear(new)

\* Whether the handler emits activeDateChange.
activeDateMoved(old, new) == compareDate(old, new) # 0

_getActiveCell(active) == JsRem(getYear(active), yearsPerPage)

(* ------------------------------------------------------------------ *)
(* Operations                                                           *)
(* ------------------------------------------------------------------ *)
\* The constructor: the active date is today, the subscription is open.
Init ==
  /\ today \in Todays
  /\ activeDate = today
  /\ minDate = Null
  /\ maxDate = Null
  /\ dateFilter = NoFilter
  /\ years = << >>
  /\ todayYear = UndefinedYear
  /\ selectedYear = UndefinedYear
  /\ selection = Null
  /\ subscribed = TRUE
  /\ phase = "constructed"
  /\ lastOp = Op("constructor")
  /\ oldActive = today
  /\ emitted = << >>
  /\ initRuns = 0
  /\ focusCalls = 0
  /\ defaultPrevented = FALSE
  /\ keySteps = << >>

\* _init with the active date the running operation has stored.
RunInit ==
  /\ selectedYear' = extractYear(selection)
  /\ todayYear' = YearVal(getYear(today))
  /\ years' = initYears(activeDate', minDate, maxDate, dateFilter)
  /\ initRuns' = 1

SkipInit ==
  /\ UNCHANGED <<selectedYear, todayYear, years>>
  /\ initRuns' = 0

\* The activeDate setter, as the input binding or a key handler calls it.
AssignActiveDate(value) ==
  /\ activeDate' = newActiveDate(value, minDate, maxDate, today)
  /\ IF pageChanged(activeDate, activeDate') THEN RunInit ELSE SkipInit

Quiet ==
  /\ emitted' = << >>
  /\ focusCalls' = 0
  /\ defaultPrevented' = FALSE
  /\ keySteps' = << >>

set_activeDate(value) ==
  /\ phase # "destroyed"
  /\ lastOp' = Op("activeDate")
  /\ oldActive' = activeDate
  /\ AssignActiveDate(value)
  /\ Quiet
  /\ UNCHANGED <<minDate, maxDate, dateFilter, selection, subscribed, phase,
                 today>>

set_minDate(value) ==
  /\ phase # "destroyed"
  /\ lastOp' = Op("minDate")
  /\ oldActive' = activeDate
  /\ minDate' = _getValidDateOrNull(deserialize(value))
  /\ SkipInit
  /\ Quiet
  /\ UNCHANGED <<activeDate, maxDate, dateFilter, selection, subscribed,
                 phase, today>>

set_maxDate(value) ==
  /\ phase # "destroyed"
  /\ lastOp' = Op("maxDate")
  /\ oldActive' = activeDate
  /\ maxDate' = _getValidDateOrNull(deserialize(value))
  /\ SkipInit
  /\ Quiet
  /\ UNCHANGED <<activeDate, minDate, dateFilter, selection, subscribed,
                 phase, today>>

set_dateFilter(filter) ==
  /\ phase # "destroyed"
  /\ lastOp' = Op("dateFilter")
  /\ oldActive' = activeDate
  /\ dateFilter' = filter
  /\ SkipInit
  /\ Quiet
  /\ UNCHANGED <<activeDate, minDate, maxDate, selection, subscribed, phase,
                 today>>

\* The selection model takes a date and announces the change; the view's
\* subscription, while open, runs extractYear.
ModelChanged(value) ==
  /\ selection' = value
  /\ selectedYear' = IF subscribed THEN extractYear(value) ELSE selectedYear
  /\ UNCHANGED <<todayYear, years>>
  /\ initRuns' = 0

\* The selected setter: this._selected.add(value).
set_selected(value) ==
  /\ phase # "destroyed"
  /\ lastOp' = Op("selected")
  /\ oldActive' = activeDate
  /\ ModelChanged(value)
  /\ Quiet
  /\ UNCHANGED <<activeDate, minDate, maxDate, dateFilter, subscribed, phase,
                 today>>

\* A sibling view changes the shared selection model.
valueChanges(value) ==
  /\ lastOp' = Op("valueChanges")
  /\ oldActive' = activeDate
  /\ ModelChanged(value)
  /\ Quiet
  /\ UNCHANGED <<activeDate, minDate, maxDate, dateFilter, subscribed, phase,
                 today>>

ngAfterContentInit ==
  /\ phase = "constructed"
  /\ phase' = "initialized"
  /\ lastOp' = Op("ngAfterContentInit")
  /\ oldActive' = activeDate
  /\ UNCHANGED activeDate
  /\ RunInit
  /\ Quiet
  /\ UNCHANGED <<minDate, maxDate, dateFilter, selection, subscribed,
                 today>>

\* Teardown that leaves the subscription open.
ngOnDestroy_keepsSubscription ==
  /\ phase # "destroyed"
  /\ phase' = "destroyed"
  /\ UNCHANGED subscribed
  /\ lastOp' = Op("ngOnDestroy")
  /\ oldActive' = activeDate
  /\ SkipInit
  /\ Quiet
  /\ UNCHANGED <<activeDate, minDate, maxDate, dateFilter, selection,
                 today>>

ngOnDestroy ==
  /\ phase # "destroyed"
  /\ phase' = "destroyed"
  /\ subscribed' = FALSE
  /\ lastOp' = Op("ngOnDestroy")
  /\ oldActive' = activeDate
  /\ SkipInit
  /\ Quiet
  /\ UNCHANGED <<activeDate, minDate, maxDate, dateFilter, selection,
                 today>>

\* _yearSelected(year), as the calendar body calls it for a clicked cell.
_yearSelected(year) ==
  /\ phase = "initialized"
  /\ lastOp' = YearOp(year)
  /\ oldActive' = activeDate
  /\ emitted' = yearSelectedEvents(year, activeDate)
  /\ focusCalls' = 0
  /\ defaultPrevented' = FALSE
  /\ keySteps' = << >>
  /\ SkipInit
  /\ UNCHANGED <<activeDate, minDate, maxDate, dateFilter, selection,
                 subscribed, phase, today>>

\* The default branch without its return.
UnhandledKey_noReturn ==
  /\ UNCHANGED activeDate
  /\ SkipInit
  /\ emitted' = << >>
  /\ focusCalls' = 1
  /\ defaultPrevented' = TRUE
  /\ keySteps' = <<"_focusActiveCell", "preventDefault">>

\* The handler's default branch: it returns before the emit, the focus
\* request and preventDefault.
UnhandledKey ==
  /\ UNCHANGED activeDate
  /\ SkipInit
  /\ Quiet

\* The steps after the switch taken only when the date moved.
AfterSwitch_onlyWhenMoved(before, switched) ==
  /\ emitted' = before \o (IF activeDateMoved(activeDate, activeDate')
                             THEN << Event("activeDateChange", activeDate') >>
                             ELSE << >>)
  /\ focusCalls' = (IF activeDateMoved(activeDate, activeDate') THEN 1 ELSE 0)
  /\ defaultPrevented' = activeDateMoved(activeDate, activeDate')
  /\ keySteps' = switched
       \o (IF activeDateMoved(activeDate, activeDate')
             THEN <<"activeDateChange", "_focusActiveCell", "preventDefault">>
           ELSE << >>)

\* The steps of the switch's navigation branches: the setter, and _init
\* inside it when it ran.
AssignSteps ==
  <<"activeDate">> \o (IF initRuns' = 1 THEN <<"_init">> ELSE << >>)

\* What follows the switch: activeDateChange if the date moved, the focus
\* request, preventDefault.
AfterSwitch(before, switched) ==
  /\ emitted' = before \o (IF activeDateMoved(activeDate, activeDate')
                             THEN << Event("activeDateChange", activeDate') >>
                             ELSE << >>)
  /\ focusCalls' = 1
  /\ defaultPrevented' = TRUE
  /\ keySteps' = switched
       \o (IF activeDateMoved(activeDate, activeDate')
             THEN <<"activeDateChange">> ELSE << >>)
       \o <<"_focusActiveCell", "preventDefault">>

_handleCalendarBodyKeydown(keyCode, altKey, dir) ==
  /\ phase = "initialized"
  /\ lastOp' = KeyOp(keyCode, altKey, _isRtl(dir))
  /\ oldActive' = activeDate
  /\ IF keyCode \in NavKeys THEN
       /\ AssignActiveDate(
            addCalendarYears(activeDate,
              keyDelta(keyCode, altKey, _isRtl(dir), getYear(activeDate))))
       /\ YearOK(getYear(activeDate'))
       /\ AfterSwitch(<< >>, AssignSteps)
     ELSE IF keyCode \in CommitKeys THEN
       /\ UNCHANGED activeDate
       /\ SkipInit
       /\ AfterSwitch(yearSelectedEvents(getYear(activeDate), activeDate),
                      <<"_yearSelected">>)
     ELSE UnhandledKey
  /\ UNCHANGED <<minDate, maxDate, dateFilter, selection, subscribed, phase,
                 today>>

\* The years of the displayed page, row by row.
PageYears == {years[r][c].value : r \in 1..Len(years), c \in 1..yearsPerRow}

\* Navigation and commit: the inputs that bound the active date, the
\* lifecycle hooks, the cell click and the keyboard.
Next ==
  \/ \E v \in ActiveInputs : set_activeDate(v)
  \/ \E v \in MinInputs : set_minDate(v)
  \/ \E v \in MaxInputs : set_maxDate(v)
  \/ ngAfterContentInit
  \/ \E e \in KeyEvents :
       _handleCalendarBodyKeydown(e.keyCode, e.altKey, e.dir)

Spec == Init /\ [][Next]_vars

\* Commit: the active date is assigned and moved by keys, and any cell of
\* the displayed page is clicked.
NextCommit ==
  \/ \E v \in CommitActiveInputs : set_activeDate(v)
  \/ ngAfterContentInit
  \/ \E y \in PageYears : _yearSelected(y)
  \/ \E e \in KeyEvents :
       _handleCalendarBodyKeydown(e.keyCode, e.altKey, e.dir)

SpecCommit == Init /\ [][NextCommit]_vars

\* Page generation: the inputs of the enablement rule are assigned, and the
\* page is generated on initialization and whenever an assigned active date
\* is on another page.
NextPage ==
  \/ \E v \in ActiveInputs : set_activeDate(v)
  \/ \E v \in MinInputs : set_minDate(v)
  \/ \E v \in MaxInputs : set_maxDate(v)
  \/ \E f \in DateFilters : set_dateFilter(f)
  \/ ngAfterContentInit

SpecPage == Init /\ [][NextPage]_vars

\* Selection: the selection model changes, through the selected input or a
\* sibling view, between construction and teardown and after it.
NextSelection ==
  \/ \E v \in ActiveInputs : set_activeDate(v)
  \/ \E v \in SelectedInputs : set_selected(v)
  \/ \E v \in SelectedInputs : valueChanges(v)
  \/ ngAfterContentInit
  \/ ngOnDestroy

SpecSelection == Init /\ [][NextSelection]_vars

\* Navigation from any day: the active date (Feb 29 included) is assigned
\* and moved by keys between one minDate and one maxDate.
NavMinInputs == {Null, Date(2020, 5, 15)}

NavMaxInputs == {Null, Date(2025, 8, 20)}

NextNav ==
  \/ \E v \in CommitActiveInputs : set_activeDate(v)
  \/ \E v \in NavMinInputs : set_minDate(v)
  \/ \E v \in NavMaxInputs : set_maxDate(v)
  \/ ngAfterContentInit
  \/ \E e \in KeyEvents :
       _handleCalendarBodyKeydown(e.keyCode, e.altKey, e.dir)

SpecNav == Init /\ [][NextNav]_vars

(* ------------------------------------------------------------------ *)
(* Claims                                                               *)
(* ------------------------------------------------------------------ *)
BothBoundsSet == ~IsNull(minDate) /\ ~IsNull(maxDate)

WithinBounds ==
  compareDate(minDate, activeDate) <= 0 /\ compareDate(activeDate, maxDate) <= 0

\* The last operation assigned the active date: the input binding, or a
\* navigation key.
AssignedActiveDate ==
  \/ lastOp.op = "activeDate"
  \/ lastOp.op = "keydown" /\ lastOp.keyCode \in NavKeys

\* C1 as claimed: in every reachable state with minDate and maxDate both
\* set, minDate <= activeDate <= maxDate.
C1_AlwaysWithinBounds == BothBoundsSet => WithinBounds

\* C1: in every state that an assignment of the active date leaves (the
\* input binding or a navigation key), when minDate and maxDate are both set
\* and minDate <= maxDate, minDate <= activeDate <= maxDate.  Assigning
\* minDate or maxDate does not clamp the active date again, and the
\* constructor's today is not clamped.
C1_ClampedWhenAssigned ==
  (AssignedActiveDate /\ BothBoundsSet /\ compareDate(minDate, maxDate) <= 0)
    => WithinBounds

\* An assignment made with both bounds set pulled an active date that lay
\* below minDate back onto minDate.
C1_Witness ==
  /\ AssignedActiveDate
  /\ BothBoundsSet
  /\ compareDate(minDate, maxDate) <= 0
  /\ compareDate(oldActive, minDate) < 0
  /\ activeDate = minDate

\* C2: after every assignment of the active date (the input binding or a
\* navigation key), _init has run once if floor(oldYear / 24) differs from
\* floor(newYear / 24), newYear being the year of the validated and clamped
\* date, and has not run otherwise.
C2_RegeneratesIffPageChanged ==
  AssignedActiveDate =>
    /\ initRuns \in {0, 1}
    /\ (initRuns = 1) <=>
         ((getYear(oldActive) \div 24) # (getYear(activeDate) \div 24))

\* A navigation key took a negative year to year 0, across the page
\* boundary, and the page was regenerated.
C2_Witness ==
  /\ lastOp.op = "keydown"
  /\ getYear(oldActive) < 0
  /\ getYear(activeDate) = 0
  /\ initRuns = 1

\* The first year of the page _init builds for active year y: y - (y % 24),
\* % taking the sign of y.
FirstOfPage(y) == y - (IF y >= 0 THEN y % 24 ELSE -((-y) % 24))

\* C3: whenever _init has run, for every active year y (0 and negative years
\* included) the page has 6 rows of 4 cells, 24 in all, whose years ascend
\* by one from y - (y mod 24), mod being the truncating remainder; for
\* y = 2023 the page is 2016..2039 and 2023 is at row 1, column 3, counted
\* from 0.
C3_PageLayout ==
  initRuns = 1 =>
    LET y == getYear(activeDate)
    IN /\ Len(years) = 6
       /\ \A r \in 1..6 :
            /\ Len(years[r]) = 4
            /\ \A c \in 1..4 :
                 years[r][c].value = FirstOfPage(y) + 4 * (r - 1) + (c - 1)
       /\ (y = 2023) =>
            /\ years[1][1].value = 2016
            /\ years[6][4].value = 2039
            /\ years[2][4].value = 2023

\* _init has run for active year 2023 and 2023 is at row 1, column 3.
C3_Witness ==
  /\ initRuns = 1
  /\ getYear(activeDate) = 2023
  /\ years[2][4].value = 2023
  /\ years[1][1].value = 2016

\* _init has run for a negative active year.
C3_NegativeReached == initRuns = 1 /\ getYear(activeDate) < 0

\* The first and last year of the page an active year is on, the page
\* being floor(year / 24).
PageFirst(y) == 24 * (y \div 24)

PageLast(y) == 24 * (y \div 24) + 23

NoBounds == IsNull(minDate) /\ IsNull(maxDate)

\* C4 as claimed: with no minDate and maxDate, HOME lands on the first year
\* and END on the last year of the page the active date was on, and neither
\* regenerates the page; so HOME followed by END visits the first and then
\* the last year of the starting page.
C4_HomeEndStayOnPage ==
  (lastOp.op = "keydown" /\ lastOp.keyCode \in {"HOME", "END"} /\ NoBounds) =>
    /\ initRuns = 0
    /\ lastOp.keyCode = "HOME" =>
         getYear(activeDate) = PageFirst(getYear(oldActive))
    /\ lastOp.keyCode = "END" =>
         getYear(activeDate) = PageLast(getYear(oldActive))

\* The number of activeDateChange events the last operation emitted.
ActiveDateChanges ==
  Cardinality({i \in 1..Len(emitted) : emitted[i].name = "activeDateChange"})

MonthLength(y, m) ==
  CASE m = 1 ->
         (IF y % 4 = 0 /\ (y % 100 # 0 \/ y % 400 = 0) THEN 29 ELSE 28)
    [] m \in {3, 5, 8, 10} -> 30
    [] OTHER -> 31

\* C7: _yearSelected(y) with the active date in month m on day d emits
\* selectedChange with (y, m, min(d, length of month m in year y)); with the
\* active date 2024-02-29, _yearSelected(2023) emits 2023-02-28.
C7_SelectedChangeDate ==
  lastOp.op = "_yearSelected" =>
    LET y == lastOp.year
        m == oldActive.month
        d == oldActive.date
    IN /\ Len(emitted) = 2
       /\ emitted[2] =
            Event("selectedChange",
                  Date(y, m, IF d <= MonthLength(y, m) THEN d
                             ELSE MonthLength(y, m)))
       /\ (oldActive = Date(2024, 1, 29) /\ y = 2023) =>
            emitted[2].value = Date(2023, 1, 28)

\* _yearSelected(2023) ran with the active date 2024-02-29 and emitted
\* selectedChange with 2023-02-28.
C7_Witness ==
  /\ lastOp.op = "_yearSelected"
  /\ lastOp.year = 2023
  /\ activeDate = Date(2024, 1, 29)
  /\ emitted[2] = Event("selectedChange", Date(2023, 1, 28))

\* The cells of the displayed page.
Cells == {years[r][c] : r \in 1..Len(years), c \in 1..4}

EnabledYears == {cell.value : cell \in {x \in Cells : x.enabled}}

AboveMax(y) == ~IsNull(maxDate) /\ y > maxDate.year

BelowMin(y) == ~IsNull(minDate) /\ y < minDate.year

\* C8: in a page _init has just generated, no cell above the year of
\* maxDate and no cell below the year of minDate is enabled, and with no
\* date filter every other cell is enabled; with minDate in 2020, maxDate in
\* 2025 and no filter, the enabled years of page 2016..2039 are 2020..2025.
C8_BoundsDisable ==
  initRuns = 1 =>
    /\ \A cell \in Cells :
         /\ AboveMax(cell.value) => ~cell.enabled
         /\ BelowMin(cell.value) => ~cell.enabled
         /\ (dateFilter = NoFilter /\ ~AboveMax(cell.value)
               /\ ~BelowMin(cell.value)) => cell.enabled
    /\ (/\ dateFilter = NoFilter
        /\ ~IsNull(minDate) /\ minDate.year = 2020
        /\ ~IsNull(maxDate) /\ maxDate.year = 2025
        /\ years[1][1].value = 2016) => EnabledYears = 2020..2025

\* Page 2016..2039 was generated with minDate in 2020, maxDate in 2025 and
\* no filter, and its enabled years are 2020..2025.
C8_Witness ==
  /\ initRuns = 1
  /\ dateFilter = NoFilter
  /\ ~IsNull(minDate) /\ minDate.year = 2020
  /\ ~IsNull(maxDate) /\ maxDate.year = 2025
  /\ years[1][1].value = 2016
  /\ EnabledYears = 2020..2025

\* Whether a filter accepts some day of a year, Jan 1 to Dec 31 (tabulated
\* for the years of the pages).
acceptsSomeDay ==
  [p \in (DateFilters \ {NoFilter}) \X PagedYears |->
     \E m \in 0..11 :
       \E d \in 1..MonthLength(p[2], m) :
         applyFilter(p[1], Date(p[2], m, d))] @@ << >>

YearLength(y) == IF MonthLength(y, 1) = 29 THEN 366 ELSE 365

\* C9: in a page _init has just generated with a date filter, a cell within
\* the bounds is enabled if and only if the filter accepts a day of its year,
\* and the scan of a year tries at most as many dates as the year has days;
\* with the filter that accepts one date only, no year but that date's is
\* enabled.
C9_FilterEnablesYear ==
  (initRuns = 1 /\ dateFilter # NoFilter) =>
    /\ \A cell \in Cells :
         /\ (~AboveMax(cell.value) /\ ~BelowMin(cell.value)) =>
              (cell.enabled <=> acceptsSomeDay[<<dateFilter, cell.value>>])
         /\ scanResult[<<dateFilter, cell.value>>].tested
              <= YearLength(cell.value)
    /\ dateFilter = "oneDate" =>
         /\ EnabledYears \subseteq {OneDate.year}
         /\ \A cell \in Cells :
              (cell.value = OneDate.year /\ ~AboveMax(cell.value)
                /\ ~BelowMin(cell.value)) => cell.enabled

\* A page was generated with the filter that accepts 2024-12-31 only, and
\* 2024 is its one enabled year.
C9_Witness ==
  /\ initRuns = 1
  /\ dateFilter = "oneDate"
  /\ EnabledYears = {2024}

\* A page was generated with the filter that accepts every Feb 29, and its
\* enabled years are its leap years.
C9_LeapYearsReached ==
  /\ initRuns = 1
  /\ dateFilter = "feb29"
  /\ NoBounds
  /\ EnabledYears = {2016, 2020, 2024, 2028, 2032, 2036}

\* C10: a key the handler does not name changes nothing: the active date,
\* the bounds, the filter, the page and the selected year stay, no event is
\* emitted, no focus is requested and the default is not prevented.
C10_UnhandledKeyFrame ==
  [][(lastOp'.op = "keydown" /\ lastOp'.keyCode \notin
        {"LEFT_ARROW", "RIGHT_ARROW", "UP_ARROW", "DOWN_ARROW", "HOME",
         "END", "PAGE_UP", "PAGE_DOWN", "ENTER", "SPACE"}) =>
       /\ UNCHANGED <<activeDate, minDate, maxDate, dateFilter, years,
                      todayYear, selectedYear, selection, subscribed, phase>>
       /\ initRuns' = 0
       /\ emitted' = << >>
       /\ focusCalls' = 0
       /\ defaultPrevented' = FALSE]_vars

\* The initialized view handled a key it does not name (TAB).
C10_Witness ==
  /\ lastOp.op = "keydown"
  /\ lastOp.keyCode = "TAB"
  /\ emitted = << >>
  /\ focusCalls = 0
  /\ ~defaultPrevented
  /\ phase = "initialized"

\* The cell at row-major index i (from 0) of the displayed page.
CellAt(i) == years[(i \div 4) + 1][(i % 4) + 1]

\* The date a key asks for: the old active date moved by n years.
Target(n) == addCalendarYears(oldActive, n)

\* No bound is in the way of a date.
Unbounded(date) ==
  /\ IsNull(minDate) \/ compareDate(date, minDate) >= 0
  /\ IsNull(maxDate) \/ compareDate(date, maxDate) <= 0

PageKeyDelta ==
  (IF lastOp.keyCode = "PAGE_DOWN" THEN 1 ELSE -1)
    * (IF lastOp.altKey THEN 240 ELSE 24)

\* C11 as claimed: with no bound in the way, PAGE_DOWN moves the active year
\* from y to y + 24 (y + 240 with alt) and PAGE_UP to y - 24 (y - 240); the
\* move crosses a page boundary and regenerates the page, which then holds
\* the new active year at the offset the old one had in its page; from 2023,
\* PAGE_DOWN lands on 2047 and the page is 2040..2063.
C11_PageKeysMoveAndRegenerate ==
  (/\ lastOp.op = "keydown"
   /\ lastOp.keyCode \in {"PAGE_UP", "PAGE_DOWN"}
   /\ Unbounded(Target(PageKeyDelta))) =>
    /\ getYear(activeDate) = getYear(oldActive) + PageKeyDelta
    /\ initRuns = 1
    /\ CellAt(getYear(oldActive) % 24).value = getYear(activeDate)
    /\ (getYear(oldActive) = 2023 /\ PageKeyDelta = 24) =>
         /\ getYear(activeDate) = 2047
         /\ years[1][1].value = 2040
         /\ years[6][4].value = 2063

\* PAGE_DOWN from 2023 landed on 2047 and the page 2040..2063 was generated.
C11_ScenarioReached ==
  /\ lastOp.op = "keydown"
  /\ lastOp.keyCode = "PAGE_DOWN"
  /\ getYear(oldActive) = 2023
  /\ getYear(activeDate) = 2047
  /\ initRuns = 1
  /\ years[1][1].value = 2040
  /\ years[6][4].value = 2063

\* An alt page jump of 240 years was made.
C11_AltReached ==
  /\ lastOp.op = "keydown"
  /\ lastOp.altKey
  /\ getYear(activeDate) = getYear(oldActive) + 240

ArrowKeys == {"LEFT_ARROW", "RIGHT_ARROW", "UP_ARROW", "DOWN_ARROW"}

ArrowDelta ==
  CASE lastOp.keyCode = "LEFT_ARROW" -> (IF lastOp.isRtl THEN 1 ELSE -1)
    [] lastOp.keyCode = "RIGHT_ARROW" -> (IF lastOp.isRtl THEN -1 ELSE 1)
    [] lastOp.keyCode = "UP_ARROW" -> -4
    [] lastOp.keyCode = "DOWN_ARROW" -> 4

\* C12: with no bound in the way, LEFT moves the active year by -1 and RIGHT
\* by +1 in a left-to-right layout, LEFT by +1 and RIGHT by -1 in a
\* right-to-left layout, UP by -4 and DOWN by +4 whatever the direction.
C12_ArrowKeysMove ==
  (/\ lastOp.op = "keydown"
   /\ lastOp.keyCode \in ArrowKeys
   /\ Unbounded(Target(ArrowDelta))) =>
    getYear(activeDate) = getYear(oldActive) + ArrowDelta

\* LEFT in a right-to-left layout moved the active year forward by one.
C12_Witness ==
  /\ lastOp.op = "keydown"
  /\ lastOp.keyCode = "LEFT_ARROW"
  /\ lastOp.isRtl
  /\ Unbounded(Target(1))
  /\ getYear(activeDate) = getYear(oldActive) + 1

\* UP in a right-to-left layout moved the active year back by a row.
C12_VerticalRtlReached ==
  /\ lastOp.op = "keydown"
  /\ lastOp.keyCode = "UP_ARROW"
  /\ lastOp.isRtl
  /\ getYear(activeDate) = getYear(oldActive) - 4

\* A date brought into [minDate, maxDate] as the bounds stand.
ClampedIntoBounds(date) ==
  IF ~IsNull(minDate) /\ compareDate(date, minDate) < 0 THEN minDate
  ELSE IF ~IsNull(maxDate) /\ compareDate(maxDate, date) < 0 THEN maxDate
  ELSE date

IsValidDate(value) == value.kind = "date"

\* C13: assigning activeDate never fails, whatever the value; an invalid or
\* non-date value (null included) makes the active date today clamped into
\* [minDate, maxDate], a valid date makes it that date clamped into
\* [minDate, maxDate]; the active date is a valid date afterwards.
C13_AssignmentFallsBackToToday ==
  /\ [](phase # "destroyed" =>
          \A value \in ActiveInputs : ENABLED set_activeDate(value))
  /\ [][\A value \in ActiveInputs :
          set_activeDate(value) =>
            /\ IsValidDate(activeDate')
            /\ activeDate' = ClampedIntoBounds(IF IsValidDate(value)
                                               THEN value ELSE today)]_vars

\* An assignment that displaced the active date fell back to today, which
\* lies within the two bounds set (no valid input is today's date).
C13_Witness ==
  /\ lastOp.op = "activeDate"
  /\ BothBoundsSet
  /\ oldActive # today
  /\ activeDate = today

\* An assignment left the active date on maxDate, below today.
C13_ClampReached ==
  /\ lastOp.op = "activeDate"
  /\ ~IsNull(maxDate)
  /\ compareDate(today, maxDate) > 0
  /\ activeDate = maxDate

\* The year of the selection model's first selected date, null when nothing
\* is selected.
FirstSelectedYear ==
  IF selection.kind = "date" THEN YearVal(selection.year) ELSE NullYear

ModelNotified == lastOp.op \in {"selected", "valueChanges"}

\* C14: before teardown, after every change notification of the selection
\* model and after every page (re)initialization, selectedYear is the year of
\* the model's first selected date, or null when nothing is selected;
\* teardown releases the subscription, and from then on changes of the
\* selection model leave selectedYear as it was.
C14_SelectedYearFollowsModel ==
  /\ []((phase # "destroyed" /\ (ModelNotified \/ initRuns = 1)) =>
          selectedYear = FirstSelectedYear)
  /\ [](phase = "destroyed" => ~subscribed)
  /\ [][phase = "destroyed" => selectedYear' = selectedYear]_vars

\* After teardown the model changed to a date of another year than the one
\* selectedYear took from a notification before teardown.
C14_Witness ==
  /\ phase = "destroyed"
  /\ lastOp.op = "valueChanges"
  /\ selection.kind = "date"
  /\ selectedYear.kind = "year"
  /\ selectedYear.year # selection.year

\* Before teardown a notification set selectedYear to the selected year.
C14_NotifiedReached ==
  /\ phase # "destroyed"
  /\ ModelNotified
  /\ selection.kind = "date"
  /\ selectedYear = YearVal(selection.year)

\* A page initialization recomputed selectedYear to null.
C14_InitReached ==
  /\ initRuns = 1
  /\ IsNull(selection)
  /\ selectedYear = NullYear

\* C15 as claimed: once the view is initialized, the year of the active date
\* is one of the 24 years of the displayed page, and _getActiveCell()
\* (activeYear % 24) is the row-major index of that year in the page, for
\* every active year, negative ones included.
C15_ActiveYearOnPage ==
  phase = "initialized" =>
    /\ getYear(activeDate) \in PageYears
    /\ _getActiveCell(activeDate) \in 0..23
    /\ CellAt(_getActiveCell(activeDate)).value = getYear(activeDate)

\* A negative active year was displayed by an initialized view.
C15_NegativeReached ==
  /\ phase = "initialized"
  /\ getYear(activeDate) < 0

\* C16 as claimed: ENTER or SPACE emits yearSelected and selectedChange only
\* when the active year is enabled under the current minDate, maxDate and
\* dateFilter; a disabled year is never selected from the keyboard.
C16_CommitOnlyWhenEnabled ==
  (/\ lastOp.op = "keydown"
   /\ lastOp.keyCode \in CommitKeys
   /\ emitted # << >>) =>
    _shouldEnableYear(getYear(activeDate), minDate, maxDate, dateFilter)

\* C17 as claimed: once the view is initialized, the enabled flag of every
\* cell of the displayed page is what the enablement rule gives with the
\* current minDate, maxDate and dateFilter, also after one of the three has
\* been assigned a new value.
C17_FlagsFollowInputs ==
  phase = "initialized" =>
    \A cell \in Cells :
      cell.enabled
        <=> _shouldEnableYear(cell.value, minDate, maxDate, dateFilter)

\* The year delta of the arrow and page keys (the commands that step).
StepKeys == ArrowKeys \cup {"PAGE_UP", "PAGE_DOWN"}

StepDelta ==
  IF lastOp.keyCode \in ArrowKeys THEN ArrowDelta ELSE PageKeyDelta

\* A forward step was asked for on maxDate, or a backward step on minDate.
ForwardAtMax ==
  /\ lastOp.op = "keydown" /\ lastOp.keyCode \in StepKeys
  /\ StepDelta > 0
  /\ ~IsNull(maxDate) /\ oldActive = maxDate

BackwardAtMin ==
  /\ lastOp.op = "keydown" /\ lastOp.keyCode \in StepKeys
  /\ StepDelta < 0
  /\ ~IsNull(minDate) /\ oldActive = minDate

StayedAtBound ==
  /\ activeDate = oldActive
  /\ emitted = << >>
  /\ initRuns = 0
  /\ focusCalls = 1
  /\ defaultPrevented

\* C18 as claimed: on maxDate every forward command (next cell, next row,
\* page down) leaves the active date unchanged, emits nothing and
\* regenerates no page, yet requests focus and prevents the default; the
\* same on minDate for the backward commands.
C18_StaysAtBound == (ForwardAtMax \/ BackwardAtMin) => StayedAtBound

\* C18: the same, the forward half for a maxDate that is not below minDate
\* (with minDate > maxDate the clamp may move the active date onto minDate).
C18_StaysAtOrderedBound ==
  /\ (ForwardAtMax /\ (IsNull(minDate) \/ compareDate(minDate, maxDate) <= 0))
       => StayedAtBound
  /\ BackwardAtMin => StayedAtBound

\* PAGE_DOWN was pressed on maxDate (not below minDate) and nothing moved.
C18_Witness ==
  /\ ForwardAtMax
  /\ lastOp.keyCode = "PAGE_DOWN"
  /\ IsNull(minDate) \/ compareDate(minDate, maxDate) <= 0
  /\ StayedAtBound

\* A backward step in a right-to-left layout was pressed on minDate.
C18_BackwardReached ==
  /\ BackwardAtMin
  /\ lastOp.keyCode = "RIGHT_ARROW" /\ lastOp.isRtl
  /\ StayedAtBound

NavigationKey == lastOp.op = "keydown" /\ lastOp.keyCode \in NavKeys

ClampedOntoBound ==
  \/ ~IsNull(minDate) /\ activeDate = minDate
  \/ ~IsNull(maxDate) /\ activeDate = maxDate

C19_ClampReached ==
  /\ NavigationKey
  /\ ~IsNull(maxDate) /\ activeDate = maxDate
  /\ getMonth(oldActive) # getMonth(maxDate)
  /\ getDate(oldActive) # getDate(maxDate)

\* A key moved Feb 29 of 2024 onto Feb 29 of another leap year.
C19_LeapToLeapReached ==
  /\ NavigationKey
  /\ oldActive = Date(2024, 1, 29)
  /\ getYear(activeDate) # 2024
  /\ getDate(activeDate) = 29

\* The steps the claim lists for a navigation command, in its order.
NavigationSteps ==
  <<"activeDate">>
    \o (IF getYear(oldActive) \div 24 # getYear(activeDate) \div 24
          THEN <<"_init">> ELSE << >>)
    \o (IF activeDate # oldActive THEN <<"activeDateChange">> ELSE << >>)
    \o <<"_focusActiveCell", "preventDefault">>

\* The steps of every navigation command are taken in the order listed, each
\* at most once, the focus request and preventDefault exactly once.
StepsInOrder ==
  NavigationKey =>
    /\ keySteps = NavigationSteps
    /\ initRuns <= 1
    /\ Len(emitted) <= 1
    /\ focusCalls = 1
    /\ defaultPrevented

\* C20 as claimed: for every navigation command the active date is assigned
\* (clamped, the page regenerated if it changed), then activeDateChange is
\* emitted if applicable, then focus on the active cell is requested exactly
\* once, then the default is prevented exactly once, each step at most once;
\* the focus request, coming after the assignment, sees the page that
\* contains the new active year.
C20_StepsInOrderFocusOnPage ==
  /\ StepsInOrder
  /\ NavigationKey => getYear(activeDate) \in PageYears

====
